---- MODULE Spec2Model ----
(***************************************************************************)
(* Red Hat Insights client: registration state machine, rule-set loading   *)
(* and upload retry loop, as one process invocation after another over the *)
(* persisted marker files.                                                 *)
(*                                                                         *)
(* Sources: src/insights_client/__init__.py, connection.py,                *)
(* collection_rules.py; src/redhat_access_insights/__init__.py,            *)
(* utilities.py, constants.py.                                             *)
(***************************************************************************)
EXTENDS Integers, Sequences, FiniteSets, TLC

\* ------------------------------------------------------------------ bounds
MaxRuns == 2          \* process invocations in one behaviour
MaxRetries == 2       \* largest value of --retry explored (0 .. MaxRetries)
MaxDocLen == 2        \* longest rule document, in blocks written at once
MaxRefreshes == 2     \* refreshes that write the cache store in one behaviour
MaxEntries == 2       \* rule entries (commands) one collection works through
MaxLines == 2         \* lines a pre-command prints
MaxContainers == 1    \* container targets collected before the host
MaxNoProxy == 2       \* comma-separated entries of NO_PROXY

\* --------------------------------------------------------- value encodings
\* A Python value that is either None or a string.
PyNone == [tag |-> "none", str |-> ""]
PyStr(s) == [tag |-> "str", str |-> s]

\* The value of one key of a JSON object: key absent, JSON null, or a string.
JAbsent == [tag |-> "absent", str |-> ""]
JNull == [tag |-> "null", str |-> ""]
JStr(s) == [tag |-> "str", str |-> s]

\* Values the service may put in "unregistered_at".  "undefined" is the
\* literal string api_registration_check uses as its .get() default.
UnregDates == {"2016-05-01", "undefined"}
JValues == {JAbsent, JNull} \cup {JStr(s) : s \in UnregDates}

\* json()[key] / dict[key] on a parsed object: the value, None for null.
PyOf(j) == IF j.tag = "str" THEN PyStr(j.str) ELSE PyNone

\* One event of the per-run history.
Ev(e, a) == [ev |-> e, arg |-> a]

\* How many events of kind e the history s holds.
Count(s, e) == Cardinality({i \in 1..Len(s) : s[i].ev = e})

\* Position of the first / last event of kind e in s (0 when there is none).
FirstPos(s, e) ==
    IF \E i \in 1..Len(s) : s[i].ev = e
    THEN CHOOSE i \in 1..Len(s) : s[i].ev = e /\ \A j \in 1..(i-1) : s[j].ev # e
    ELSE 0

LastPos(s, e) ==
    IF \E i \in 1..Len(s) : s[i].ev = e
    THEN CHOOSE i \in 1..Len(s) : s[i].ev = e /\ \A j \in (i+1)..Len(s) : s[j].ev # e
    ELSE 0

\* ----------------------------------------------------------------- state
VARIABLES
    pkg,        \* which entry point runs: "insights_client" or "redhat_access_insights"
    fs,         \* persisted files: .registered, .unregistered, machine-id, .lastupload
    cache,      \* the cached rule document and its detached signature on disk
    now,        \* wall clock, one tick per invocation
    run,        \* invocations started so far
    opts,       \* parsed options and the config values they override
    pc,         \* position of the running process
    exit_code,  \* exit status of the last finished process
    system,     \* response of the last create-system POST
    upload,     \* response of the last upload POST
    tries,      \* loop variable of the upload loop
    rc,         \* return code of collect_data_and_upload
    reg_check,  \* result of the last registration_check() of this run
    conf,       \* what get_conf returned in this run
    trace,      \* history of this run: requests sent, sleeps, writes, decisions
    load,       \* the local files get_conf found in this run
    cache_file, \* the cache store block by block: the rules file and its .asc
    writer,     \* the refresh that is writing the cache store
    collector,  \* the DataCollector: position, rm_conf, mount point
    entries,    \* the rule entries worked through so far and what became of each
    added,      \* what was added to the archive, in order
    procs,      \* the processes spawned so far
    job,        \* collect_data_and_upload from the target loop on: position, options
    staging,    \* the archives created: staging directory, atexit registration
    environ,    \* what InsightsConnection() reads: config values, environment
    conn,       \* InsightsConnection() and branch_info(): position, proxies, outcome
    cli         \* the modifier options on their way from the parser to the upload

\* The invocation as a whole: startup, registration, rule-set load, upload.
client == <<pkg, fs, cache, now, run, opts, pc, exit_code, system, upload,
            tries, rc, reg_check, conf, trace, load>>

\* The cache store while a refresh writes it.
cache_write == <<cache_file, writer>>

\* The data collection of one target.
collection == <<collector, entries, added, procs>>

\* The archives of one invocation.
archiving == <<job, staging>>

\* The connection of one invocation.
connecting == <<environ, conn>>

\* What the invocation as a whole leaves alone.
parts == <<cache_write, collection, archiving, connecting, cli>>

\* What a refresh, a collection, and the archive handling leave alone.
outside_cache_write == <<client, collection, archiving, connecting, cli>>
outside_collection == <<client, cache_write, archiving, connecting, cli>>
outside_archiving == <<client, cache_write, collection, connecting, cli>>
outside_connecting == <<client, cache_write, collection, archiving, cli>>
outside_cli == <<client, cache_write, collection, archiving, connecting>>

vars == <<client, parts>>

\* ------------------------------------------------------------ utilities.py
NoStamp == [exists |-> FALSE, stamp |-> 0]
NoText == [exists |-> FALSE, text |-> ""]
NoId == [exists |-> FALSE, id |-> 0]

\* datetime.isoformat(datetime.now()) written as text
IsoNow(t) == ToString(t)

delete_registered_file(f) == [f EXCEPT !.registered = NoStamp]

\* write_registered_file that never creates the file.
write_registered_file_lost(f, t) == f

write_registered_file(f, t) ==
    [f EXCEPT !.registered = [exists |-> TRUE, stamp |-> t]]

\* removes .unregistered and then calls write_registered_file()
delete_unregistered_file(f, t) ==
    write_registered_file([f EXCEPT !.unregistered = NoText], t)

delete_machine_id(f) == [f EXCEPT !.machine_id = NoId]

\* returns the files; the id read or created is .machine_id.id of the result
generate_machine_id(f, new) ==
    IF f.machine_id.exists /\ ~new
    THEN f
    ELSE [f EXCEPT !.uuids = @ + 1,
                   !.machine_id = [exists |-> TRUE, id |-> f.uuids + 1]]

write_lastupload_file(f, t) ==
    [f EXCEPT !.lastupload = [exists |-> TRUE, stamp |-> t]]

\* writes the marker and ends with sys.exit(rc): rc 0 without a date, 1 with
write_unregistered_file(f, date, t) ==
    [fs |-> [delete_registered_file(f) EXCEPT
                !.unregistered = [exists |-> TRUE,
                                  text |-> IF date.tag = "none" THEN IsoNow(t)
                                           ELSE date.str]],
     rc |-> IF date.tag = "none" THEN 0 ELSE 1]


\* ------------------------------------------------------------ connection.py
PyTrue == [tag |-> "bool", str |-> "True"]
PyFalse == [tag |-> "bool", str |-> "False"]

\* An HTTP response as the client reads it: status code, whether the body
\* parses as JSON, and the two keys of the body the client looks at.
Resp(st, j, ua, msg) ==
    [status |-> st, json_ok |-> j, unregistered_at |-> ua, has_message |-> msg]

\* Answers of GET /v1/systems/<machine-id>: no connection, a body that is not
\* JSON, a JSON body that is not an object, or an object.
CheckResponses ==
    {[kind |-> k, unregistered_at |-> JAbsent] : k \in {"conn_error", "not_json", "array"}}
    \cup {[kind |-> "object", unregistered_at |-> j] : j \in JValues}

\* Answers of POST /v1/systems.
CreateStatuses == {201, 409, 401}
CreateResponses == {Resp(st, j, JAbsent, FALSE) : st \in CreateStatuses, j \in BOOLEAN}

\* Answers of POST <upload_url>/<id>.
UploadResponses ==
    {Resp(st, j, JAbsent, FALSE) : st \in {201, 500}, j \in BOOLEAN}
    \cup {Resp(412, TRUE, ua, m) : ua \in JValues, m \in BOOLEAN}
    \cup {Resp(412, FALSE, JAbsent, FALSE)}

\* out: "return" with val, "exit" (test_connection() ends in sys.exit) or
\* "raise" (AttributeError: the parsed body has no .get).
api_registration_check(res) ==
    IF res.kind = "conn_error" THEN [out |-> "exit", val |-> PyFalse]
    ELSE IF res.kind = "not_json" THEN [out |-> "return", val |-> PyFalse]
    ELSE IF res.kind = "array" THEN [out |-> "raise", val |-> PyFalse]
    ELSE LET unreg_status ==
                 IF res.unregistered_at.tag = "absent" THEN PyStr("undefined")
                 ELSE PyOf(res.unregistered_at)
         IN  IF unreg_status = PyStr("undefined") THEN [out |-> "return", val |-> PyNone]
             ELSE IF unreg_status = PyNone THEN [out |-> "return", val |-> PyTrue]
             ELSE [out |-> "return", val |-> unreg_status]

\* support.registration_check(): status is True only when the API confirms
\* the registration; a timestamp answer is kept as the unregistered date.
registration_check(api) ==
    [status |-> (api = PyTrue),
     unreg_date |-> IF api.tag = "str" THEN api ELSE PyNone]

\* reg_check before any check, and after a check that got the answer res:
\* what api_registration_check did with it and what registration_check made
\* of that.
NoCheck ==
    [done |-> FALSE, res |-> [kind |-> "", unregistered_at |-> JAbsent],
     out |-> "", val |-> PyNone, status |-> FALSE, unreg_date |-> PyNone]

Checked(res) ==
    LET api == api_registration_check(res)
        r == registration_check(api.val)
    IN  [done |-> TRUE, res |-> res, out |-> api.out, val |-> api.val,
         status |-> (api.out = "return" /\ r.status),
         unreg_date |-> IF api.out = "return" THEN r.unreg_date ELSE PyNone]

\* handle_fail_rcs whose sys.exit(1) sits under the 401 branch only.
handle_fail_rcs_exit_on_401(f, req, t) ==
    [fs |-> IF /\ req.status = 412
               /\ req.json_ok
               /\ req.unregistered_at.tag # "absent"
               /\ req.has_message
            THEN write_unregistered_file(f, PyOf(req.unregistered_at), t).fs
            ELSE f,
     exits |-> (req.status = 401)]

\* handle_fail_rcs(req): the files afterwards and whether it called sys.exit(1).
\* On 412 the date is read, then the message, then the marker is written; the
\* SystemExit of write_unregistered_file is swallowed by the bare except.
handle_fail_rcs(f, req, t) ==
    [fs |-> IF /\ req.status = 412
               /\ req.json_ok
               /\ req.unregistered_at.tag # "absent"
               /\ req.has_message
            THEN write_unregistered_file(f, PyOf(req.unregistered_at), t).fs
            ELSE f,
     exits |-> (req.status >= 400)]

NoResp == Resp(0, FALSE, JAbsent, FALSE)

\* ------------------------------------------------------- process lifecycle
NoOpts ==
    [register |-> FALSE, reregister |-> FALSE, unregister |-> FALSE,
     offline |-> FALSE, no_upload |-> FALSE, update |-> FALSE,
     from_stdin |-> FALSE, no_gpg |-> FALSE, gpg |-> TRUE, retries |-> 1]

\* The options handle_startup reads.  update, from_stdin and retries are
\* first read in collect_data_and_upload and are drawn there; the config
\* value gpg keeps its default unless --no-gpg overrides it.
StartupOptions ==
    {[NoOpts EXCEPT !.register = r, !.reregister = rr, !.unregister = u,
                    !.offline = off, !.no_upload = nu, !.no_gpg = ng] :
        r \in BOOLEAN, rr \in BOOLEAN, u \in BOOLEAN,
        off \in BOOLEAN, nu \in BOOLEAN, ng \in BOOLEAN}

NoConf == [returned |-> FALSE, mode |-> "", doc |-> "", sig_ok |-> FALSE]
NoCache == [exists |-> FALSE, doc |-> "", asc |-> ""]

\* load before get_conf ran.  rm_error: the removal file was there and had
\* no [remove] section; fallback is the bundled fallback store as it was on
\* disk when the cached store gave no rule set (the only case in which its
\* content matters).
NoLoad == [done |-> FALSE, rm_error |-> FALSE, fallback |-> NoCache]

\* No refresh has written the cache store.
NoWriter ==
    [pc |-> "idle", queue |-> <<>>, pos |-> 0, refreshes |-> 0,
     prev |-> <<>>, doc |-> <<>>]
NoCacheFile == [rules |-> <<>>, asc |-> <<>>]
CacheWriteIdle == cache_file = NoCacheFile /\ writer = NoWriter

\* rm_conf as get_conf returns it when there is no removal file.
NoRemoval == [files |-> {}, commands |-> {}, patterns |-> FALSE]
NoCollector == [pc |-> "idle", rm_conf |-> NoRemoval, mountpoint |-> "/"]
CollectorIdle ==
    /\ collector = NoCollector
    /\ entries = <<>>
    /\ added = <<>>
    /\ procs = <<>>

ClientInit ==
    /\ pkg \in {"insights_client", "redhat_access_insights"}
    /\ fs = [registered |-> NoStamp, unregistered |-> NoText,
             machine_id |-> NoId, lastupload |-> NoStamp, uuids |-> 0]
    /\ cache = NoCache
    /\ now = 0
    /\ run = 0
    /\ opts = NoOpts
    /\ pc = "idle"
    /\ exit_code = 0
    /\ system = NoResp
    /\ upload = NoResp
    /\ tries = 0
    /\ rc = 0
    /\ reg_check = NoCheck
    /\ conf = NoConf
    /\ trace = <<>>
    /\ load = NoLoad

\* The options and config values lines 475-589 and _delete_archive read.
ArchiveOptions ==
    [container_mode : BOOLEAN, keep_archive : BOOLEAN, offline : BOOLEAN,
     no_upload : BOOLEAN, no_tar_file : BOOLEAN, obfuscate : BOOLEAN,
     retries : 1..MaxRetries]
NoJob ==
    [pc |-> "idle", targets |-> 0, tries |-> 0, rc |-> 0, how |-> "",
     options |-> [container_mode |-> FALSE, keep_archive |-> FALSE,
                  offline |-> FALSE, no_upload |-> FALSE, no_tar_file |-> FALSE,
                  obfuscate |-> FALSE, retries |-> 1]]
ArchivingIdle == job = NoJob /\ staging = <<>>

\* A value that is not there: None in a config value or a variable, a key
\* missing from os.environ.
None == <<"(None)">>

NoEnviron ==
    [conf_proxy |-> None, https_proxy |-> None, no_proxy |-> None,
     base_url |-> <<>>, upload_url |-> <<>>]
NoConn ==
    [pc |-> "idle", proxies |-> None, proxy_auth |-> None, fatal |-> "",
     status |-> 0, no_upload |-> FALSE]
ConnectingIdle == environ = NoEnviron /\ conn = NoConn

\* The options that decide whether anything is uploaded.
NoCli ==
    [pc |-> "idle", tries |-> 0, sent |-> 0, rc |-> 0,
     options |-> [offline |-> FALSE, no_upload |-> FALSE, to_stdout |-> FALSE,
                  from_stdin |-> FALSE, from_file |-> FALSE,
                  just_upload |-> FALSE, no_tar_file |-> FALSE, retries |-> 1]]
CliIdle == cli = NoCli

Init ==
    /\ ClientInit
    /\ CacheWriteIdle
    /\ CollectorIdle
    /\ ArchivingIdle
    /\ ConnectingIdle
    /\ CliIdle

\* The process ends with status c.
Exit(c) == pc' = "exited" /\ exit_code' = c

\* A new invocation: a fresh process, nothing of the last one left but the
\* files.
StartRun ==
    /\ pc \in {"idle", "exited"}
    /\ run < MaxRuns
    /\ run' = run + 1
    /\ now' = now + 1
    /\ opts' = NoOpts
    /\ pc' = "_main"
    /\ system' = NoResp
    /\ upload' = NoResp
    /\ tries' = 0
    /\ rc' = 0
    /\ reg_check' = NoCheck
    /\ conf' = NoConf
    /\ trace' = <<>>
    /\ load' = NoLoad
    /\ exit_code' = 0
    /\ UNCHANGED <<pkg, fs, cache>>
    /\ UNCHANGED parts

\* _main(): the invocation parses its options and calls handle_startup().
ParseOptions ==
    /\ pc = "_main"
    /\ opts' \in StartupOptions
    /\ pc' = "handle_startup"
    /\ UNCHANGED <<pkg, fs, cache, now, run, exit_code, system, upload, tries, rc,
                   reg_check, conf, trace>>
    /\ UNCHANGED <<load, parts>>


\* The events a call of generate_machine_id adds: a new identity was written.
GenEv(f, f2) == IF f2.uuids # f.uuids THEN <<Ev("regen", f2.machine_id.id)>> ELSE <<>>

\* Where control goes when the register block of handle_startup is done.
AfterRegister == IF pkg = "insights_client" THEN "collect" ELSE "startup_tail"

\* --------------------------------- insights_client/__init__.py handle_startup
\* Lines 188-241: --no-gpg, --unregister, --force-reregister, machine id, and
\* the branch to try_register() or to _is_client_registered().
IC_handle_startup ==
    /\ pc = "handle_startup"
    /\ pkg = "insights_client"
    /\ LET o1 == [opts EXCEPT !.gpg = opts.gpg /\ ~opts.no_gpg]
       IN  IF o1.unregister
           THEN /\ pc' = "unregister"
                /\ opts' = o1
                /\ UNCHANGED <<fs, trace>>
           ELSE LET new == o1.reregister
                    o2 == [o1 EXCEPT !.register = o1.register \/ new]
                    f1 == IF new
                          THEN delete_machine_id(
                                   delete_unregistered_file(
                                       delete_registered_file(fs), now))
                          ELSE fs
                    f2 == generate_machine_id(f1, new)
                IN  /\ fs' = f2
                    /\ opts' = o2
                    /\ trace' = trace \o GenEv(f1, f2)
                    /\ pc' = IF o2.register THEN "try_register"
                             ELSE IF ~o2.offline THEN "is_client_registered"
                             ELSE "collect"
    /\ UNCHANGED <<pkg, cache, now, run, exit_code, system, upload, tries, rc, reg_check, conf>>
    /\ UNCHANGED <<load, parts>>

\* ---------------------------- redhat_access_insights/__init__.py handle_startup
\* Lines 518-560: --force-reregister, machine id, --no-gpg, --unregister.
RH_handle_startup ==
    /\ pc = "handle_startup"
    /\ pkg = "redhat_access_insights"
    /\ LET new == opts.reregister
           o1 == [opts EXCEPT !.register = opts.register \/ new,
                              !.gpg = opts.gpg /\ ~opts.no_gpg]
           f1 == IF new
                 THEN delete_machine_id(
                          delete_unregistered_file(
                              delete_registered_file(fs), now))
                 ELSE fs
           f2 == generate_machine_id(f1, new)
       IN  /\ fs' = f2
           /\ opts' = o1
           /\ trace' = trace \o GenEv(f1, f2)
           /\ pc' = IF o1.unregister THEN "unregister"
                    ELSE IF o1.register THEN "try_register"
                    ELSE "startup_tail"
    /\ UNCHANGED <<pkg, cache, now, run, exit_code, system, upload, tries, rc, reg_check, conf>>
    /\ UNCHANGED <<load, parts>>

\* Lines 603-657: --no-upload implies offline; then the two gates on the
\* local markers.
RH_startup_tail ==
    /\ pc = "startup_tail"
    /\ LET o1 == [opts EXCEPT !.offline = opts.offline \/ opts.no_upload]
           gated == ~o1.register /\ ~o1.offline
       IN  /\ opts' = o1
           /\ IF gated /\ ~fs.registered.exists /\ ~fs.unregistered.exists
              THEN Exit(1)
              ELSE IF gated /\ fs.unregistered.exists
              THEN Exit(1)
              ELSE pc' = "collect" /\ UNCHANGED exit_code
    /\ UNCHANGED <<pkg, fs, cache, now, run, system, upload, tries, rc, reg_check, conf, trace>>
    /\ UNCHANGED <<load, parts>>

\* connection.py unregister() followed by the sys.exit() of handle_startup.
\* The DELETE either gets an answer (any status) or raises ConnectionError.
Unregister ==
    /\ pc = "unregister"
    /\ LET f1 == generate_machine_id(fs, FALSE)
       IN  \E st \in {0, 204, 401, 500} :
               IF st = 0
               THEN /\ fs' = f1
                    /\ trace' = trace \o GenEv(fs, f1) \o <<Ev("delete_failed", 0)>>
                    /\ Exit(0)
               ELSE LET w == write_unregistered_file(f1, PyNone, now)
                    IN  /\ fs' = w.fs
                        /\ trace' = trace \o GenEv(fs, f1) \o <<Ev("delete", st)>>
                        /\ Exit(w.rc)
    /\ UNCHANGED <<pkg, cache, now, run, opts, system, upload, tries, rc, reg_check, conf>>
    /\ UNCHANGED <<load, parts>>

\* try_register() (insights_client lines 318-328) and the same decision in
\* redhat_access_insights handle_startup lines 563-584.
TryRegister ==
    /\ pc = "try_register"
    /\ IF fs.registered.exists
       THEN /\ trace' = Append(trace, Ev("already_registered", 0))
            /\ pc' = AfterRegister
            /\ UNCHANGED <<fs, reg_check, exit_code>>
       ELSE \E res \in CheckResponses :
               LET c == Checked(res)
                   t1 == Append(trace, Ev("remote_check", 0))
               IN  /\ reg_check' = c
                   /\ IF c.out = "exit"
                      THEN /\ \E x \in {0, 1} : Exit(x)
                           /\ trace' = t1
                           /\ UNCHANGED fs
                      ELSE IF c.out = "raise"
                      THEN /\ Exit(1)
                           /\ trace' = t1
                           /\ UNCHANGED fs
                      ELSE /\ UNCHANGED exit_code
                           /\ IF c.status
                              THEN /\ fs' = write_registered_file(fs, now)
                                   /\ trace' = Append(t1, Ev("already_registered", 1))
                                   /\ pc' = AfterRegister
                              ELSE /\ trace' = Append(t1, Ev("register_begin", 0))
                                   /\ pc' = "register"
                                   /\ UNCHANGED fs
    /\ UNCHANGED <<pkg, cache, now, run, opts, system, upload, tries, rc, conf>>
    /\ UNCHANGED <<load, parts>>

\* create_system(new_machine_id): the machine id is read or regenerated, the
\* branch info is fetched, then the POST is sent.  A failure of either
\* request runs test_connection(1), which exits.  f is the files before.
create_system(f, new, next_pc) ==
    LET f1 == generate_machine_id(f, new)
    IN  /\ fs' = f1
        /\ \/ /\ trace' = trace \o GenEv(f, f1) \o <<Ev("branch_info_failed", 0)>>
              /\ Exit(1)
              /\ UNCHANGED system
           \/ /\ trace' = trace \o GenEv(f, f1) \o <<Ev("create_failed", 0)>>
              /\ Exit(1)
              /\ UNCHANGED system
           \/ \E res \in CreateResponses :
                  /\ trace' = trace \o GenEv(f, f1) \o <<Ev("create", res.status)>>
                  /\ system' = res
                  /\ pc' = next_pc[res.status = 409]
                  /\ UNCHANGED exit_code

\* connection.py register() lines 714-719: delete_unregistered_file() and the
\* first create_system.
RegisterCreate ==
    /\ pc = "register"
    /\ create_system(delete_unregistered_file(fs, now), FALSE,
                     [b \in BOOLEAN |-> IF b THEN "register_retry" ELSE "register_finish"])
    /\ UNCHANGED <<pkg, cache, now, run, opts, upload, tries, rc, reg_check, conf>>
    /\ UNCHANGED <<load, parts>>

\* register() lines 722-723: a 409 is answered by one create_system with a
\* new machine id.
RegisterRetry ==
    /\ pc = "register_retry"
    /\ create_system(fs, TRUE, [b \in BOOLEAN |-> "register_finish"])
    /\ UNCHANGED <<pkg, cache, now, run, opts, upload, tries, rc, reg_check, conf>>
    /\ UNCHANGED <<load, parts>>

\* register() lines 724-730: handle_fail_rcs, system.json(), .registered.
RegisterFinish ==
    /\ pc = "register_finish"
    /\ LET h == handle_fail_rcs(fs, system, now)
       IN  IF h.exits
           THEN /\ fs' = h.fs
                /\ Exit(1)
                /\ UNCHANGED trace
           ELSE IF ~system.json_ok
           THEN /\ Exit(1)
                /\ UNCHANGED <<fs, trace>>
           ELSE /\ fs' = write_registered_file(fs, now)
                /\ trace' = Append(trace, Ev("registered", 0))
                /\ pc' = AfterRegister
                /\ UNCHANGED exit_code
    /\ UNCHANGED <<pkg, cache, now, run, opts, system, upload, tries, rc, reg_check, conf>>
    /\ UNCHANGED <<load, parts>>

\* _is_client_registered() and lines 237-241 of insights_client handle_startup.
IC_is_client_registered ==
    /\ pc = "is_client_registered"
    /\ \E res \in CheckResponses :
          LET c == Checked(res)
          IN  /\ trace' = Append(trace, Ev("remote_check", 0))
              /\ reg_check' = c
              /\ IF c.out = "exit"
                 THEN /\ \E x \in {0, 1} : Exit(x)
                      /\ UNCHANGED fs
                 ELSE IF c.out = "raise"
                 THEN /\ Exit(1)
                      /\ UNCHANGED fs
                 ELSE IF ~c.status
                 THEN IF c.unreg_date.tag = "str" /\ c.unreg_date.str # ""
                      THEN LET w == write_unregistered_file(fs, c.unreg_date, now)
                           IN  fs' = w.fs /\ Exit(w.rc)
                      ELSE /\ fs' = delete_unregistered_file(
                                        delete_registered_file(fs), now)
                           /\ Exit(1)
                 ELSE /\ fs' = delete_unregistered_file(
                                   IF ~fs.registered.exists
                                   THEN write_registered_file(fs, now)
                                   ELSE fs, now)
                      /\ pc' = "collect"
                      /\ UNCHANGED exit_code
    /\ UNCHANGED <<pkg, cache, now, run, opts, system, upload, tries, rc, conf>>
    /\ UNCHANGED <<load, parts>>

\* ------------------------------------------------------ collection_rules.py
\* Rule documents by content: a well-formed rule set, a JSON object without
\* "version", text that is not JSON, and an empty file.
RuleDocs == {"rules", "no_version", "bad_json", "empty"}
Parses(d) == d \in {"rules", "no_version"}
HasVersion(d) == d = "rules"

\* A detached signature names the document it signs; "garbage" signs none.
Signatures == RuleDocs \cup {"garbage"}

\* A rule store on disk: the document and the .asc file next to it
\* (asc = "" when there is no .asc file).
Stores ==
    {NoCache} \cup [exists : {TRUE}, doc : RuleDocs, asc : Signatures \cup {""}]

\* validate_gpg_sig that ignores the return code of gpg.
validate_gpg_sig_ignored(doc, asc) == TRUE

\* validate_gpg_sig(path, sig): gpg --verify returns 0 exactly when the
\* signature file signs this document; otherwise the caller never returns
\* (sys.exit).
validate_gpg_sig(doc, asc) == asc = doc

\* Whether the detached signature asc really is a signature of doc.
SignatureVerifies(doc, asc) == asc = doc

\* try_disk(path, gpg): "skip" (no file, or an empty file), "exit" (signature
\* or JSON invalid) or "loaded".
try_disk(store, gpg) ==
    IF ~store.exists THEN "skip"
    ELSE IF gpg /\ ~validate_gpg_sig(store.doc, store.asc) THEN "exit"
    ELSE IF store.doc = "empty" THEN "skip"
    ELSE IF ~Parses(store.doc) THEN "exit"
    ELSE "loaded"

Returned(mode, doc, asc) ==
    [returned |-> TRUE, mode |-> mode, doc |-> doc,
     sig_ok |-> SignatureVerifies(doc, asc)]

\* get_conf lines 163-172: the removal file is absent, has a [remove]
\* section, or has none (items('remove') raises NoSectionError).
RemoveFiles == {"absent", "ok", "no_section"}

Loaded(rm, fallback) ==
    [done |-> TRUE, rm_error |-> (rm = "no_section"), fallback |-> fallback]

\* The bundled fallback store as get_conf may find it: missing, or a
\* document with its own signature, a foreign signature or no .asc file.
FallbackStores ==
    {NoCache} \cup UNION {{[exists |-> TRUE, doc |-> d, asc |-> a] :
                               a \in {d, "garbage", ""}} : d \in RuleDocs}

\* write_collection_data(path, data): the file is opened O_WRONLY | O_CREAT
\* without O_TRUNC and written from offset 0, so what the file holds
\* afterwards is data followed by whatever an earlier, longer content had
\* beyond it.  On documents by content: the new document, or (over an
\* existing non-empty file) text that no longer parses or verifies.
write_collection_data(old, data, mixed) ==
    {data} \cup (IF old \notin {"", "empty"} THEN {mixed} ELSE {})

\* An input the code reads only when `reached` holds: where it is never
\* read, one value stands for all of them.
Read(reached, input, unread) == reached \/ input = unread

\* get_conf lines 173-184: a document supplied with --from-stdin/--from-file.
GetConfStdin ==
    /\ pc = "get_conf"
    /\ opts.from_stdin
    /\ \E rm \in RemoveFiles, d \in RuleDocs, sig \in Signatures :
          /\ Read(rm # "no_section", <<d, sig>>, <<"rules", "rules">>)
          /\ load' = Loaded(rm, NoCache)
          /\ IF rm = "no_section" THEN Exit(1) /\ UNCHANGED conf
             ELSE IF opts.gpg /\ ~validate_gpg_sig(d, sig) THEN Exit(1) /\ UNCHANGED conf
             ELSE IF ~Parses(d) THEN Exit(1) /\ UNCHANGED conf
             ELSE /\ conf' = Returned("stdin", d, sig)
                  /\ pc' = "archive"
                  /\ UNCHANGED exit_code
    /\ UNCHANGED <<pkg, fs, cache, now, run, opts, system, upload, tries, rc, reg_check, trace>>
    /\ UNCHANGED parts

\* get_conf lines 185-199 with get_collection_rules, fetch_gpg,
\* get_collection_rules_gpg and write_collection_data: a forced refresh.
GetConfUpdate ==
    /\ pc = "get_conf"
    /\ ~opts.from_stdin
    /\ opts.update
    /\ \E rm \in RemoveFiles, st \in {200, 404}, d \in RuleDocs,
          sigst \in {200, 404}, sig \in Signatures :
          /\ Read(rm # "no_section" /\ ~(pkg = "insights_client" /\ opts.offline),
                  st, 200)
          /\ Read(st = 200, <<d, sigst>>, <<"rules", 200>>)
          /\ Read(opts.gpg, sigst, 200)
          /\ Read(sigst = 200, sig, "rules")
          /\ load' = Loaded(rm, NoCache)
          /\ IF rm = "no_section" THEN Exit(1) /\ UNCHANGED <<conf, cache>>
             ELSE IF pkg = "insights_client" /\ opts.offline
             THEN Exit(1) /\ UNCHANGED <<conf, cache>>
             ELSE IF st # 200 THEN Exit(1) /\ UNCHANGED <<conf, cache>>
             ELSE IF opts.gpg /\ sigst # 200 THEN Exit(1) /\ UNCHANGED <<conf, cache>>
             ELSE IF opts.gpg /\ ~validate_gpg_sig(d, sig)
             THEN Exit(1) /\ UNCHANGED <<conf, cache>>
             ELSE /\ \E doc \in write_collection_data(cache.doc, d, "bad_json"),
                        asc \in IF opts.gpg
                                THEN write_collection_data(cache.asc, sig, "garbage")
                                ELSE {cache.asc} :
                        cache' = [exists |-> TRUE, doc |-> doc, asc |-> asc]
                  /\ IF ~Parses(d) \/ ~HasVersion(d)
                     THEN Exit(1) /\ UNCHANGED conf
                     ELSE /\ conf' = Returned("update", d, sig)
                          /\ pc' = "archive"
                          /\ UNCHANGED exit_code
    /\ UNCHANGED <<pkg, fs, now, run, opts, system, upload, tries, rc, reg_check, trace>>
    /\ UNCHANGED parts

\* get_conf lines 200-215 with try_disk: the cached store, then the bundled
\* fallback store.
GetConfCached ==
    /\ pc = "get_conf"
    /\ ~opts.from_stdin
    /\ ~opts.update
    /\ \E rm \in RemoveFiles, fallback \in FallbackStores :
          LET c1 == try_disk(cache, opts.gpg)
              c2 == try_disk(fallback, opts.gpg)
              cached == c1 = "loaded" /\ HasVersion(cache.doc)
          IN  /\ cached => fallback = NoCache
              /\ load' = Loaded(rm, fallback)
              /\ IF rm = "no_section" THEN Exit(1) /\ UNCHANGED conf
                 ELSE IF c1 = "exit" THEN Exit(1) /\ UNCHANGED conf
                 ELSE IF c1 = "loaded"
                 THEN IF ~HasVersion(cache.doc) THEN Exit(1) /\ UNCHANGED conf
                      ELSE /\ conf' = Returned("cached", cache.doc, cache.asc)
                           /\ pc' = "archive"
                           /\ UNCHANGED exit_code
                 ELSE IF c2 = "exit" THEN Exit(1) /\ UNCHANGED conf
                 ELSE IF c2 = "loaded"
                 THEN IF ~HasVersion(fallback.doc) THEN Exit(1) /\ UNCHANGED conf
                      ELSE /\ conf' = Returned("fallback", fallback.doc, fallback.asc)
                           /\ pc' = "archive"
                           /\ UNCHANGED exit_code
                 ELSE Exit(1) /\ UNCHANGED conf
    /\ UNCHANGED <<pkg, fs, cache, now, run, opts, system, upload, tries, rc, reg_check, trace>>
    /\ UNCHANGED parts

\* ------------------------------------------------- collect_data_and_upload
\* Up to the call of get_conf: the branch info request (with
\* handle_branch_info_error) and the parse of the supplied document.
Collect ==
    /\ pc = "collect"
    /\ \E branch_ok \in BOOLEAN, stdin_ok \in BOOLEAN,
          update \in BOOLEAN, from_stdin \in BOOLEAN :
          LET asked == pkg = "redhat_access_insights" \/ ~opts.offline
              tolerated == IF pkg = "insights_client"
                           THEN opts.offline \/ opts.no_upload
                           ELSE opts.no_upload
          IN  /\ trace' = Append(trace, Ev("collect_start", 0))
              /\ IF asked /\ ~branch_ok /\ ~tolerated
                 THEN Exit(IF pkg = "insights_client" THEN 1 ELSE 0) /\ UNCHANGED opts
                 ELSE IF from_stdin /\ ~stdin_ok
                 THEN Exit(1) /\ UNCHANGED opts
                 ELSE /\ opts' = [opts EXCEPT !.update = update,
                                              !.from_stdin = from_stdin]
                      /\ pc' = "get_conf"
                      /\ UNCHANGED exit_code
    /\ UNCHANGED <<pkg, fs, cache, now, run, system, upload, tries, rc, reg_check, conf>>
    /\ UNCHANGED <<load, parts>>

\* From the return of get_conf to the upload: the data is collected and the
\* archive built; offline and no-upload runs end here with rc.
\* What get_conf found on disk is not looked at again.
Archive ==
    /\ pc = "archive"
    /\ trace' = Append(trace, Ev("archive", 0))
    /\ IF opts.offline \/ (pkg = "insights_client" /\ opts.no_upload)
       THEN Exit(rc) /\ UNCHANGED opts
       ELSE /\ \E n \in 0..MaxRetries : opts' = [opts EXCEPT !.retries = n]
            /\ pc' = "upload"
            /\ UNCHANGED exit_code
    /\ load' = NoLoad
    /\ UNCHANGED <<pkg, fs, cache, now, run, system, upload, tries, rc, reg_check, conf>>
    /\ UNCHANGED parts

\* The loop body without the break after a 201.
loop_body_no_break(res, n, retries) ==
    IF ~res.json_ok
    THEN [next |-> "raise", write |-> FALSE, sleep |-> FALSE, failed |-> FALSE]
    ELSE IF res.status = 201
    THEN [next |-> "continue", write |-> TRUE, sleep |-> FALSE, failed |-> FALSE]
    ELSE IF res.status = 412
    THEN [next |-> "handle_fail_rcs", write |-> FALSE, sleep |-> FALSE, failed |-> FALSE]
    ELSE [next |-> "continue", write |-> FALSE,
          sleep |-> (n + 1 # retries), failed |-> (n + 1 = retries)]

\* The body of `for tries in range(retries)` in _do_upload (insights_client
\* lines 596-616, redhat_access_insights lines 261-282) as a decision on the
\* answer res of attempt number n (from 0): upload_archive parses the body
\* outside any try and so raises on a body that is not JSON; 201 writes the
\* marker and breaks; 412 goes to handle_fail_rcs; anything else sleeps
\* unless this was the last permitted attempt, where rc becomes 1.
loop_body(res, n, retries) ==
    IF ~res.json_ok
    THEN [next |-> "raise", write |-> FALSE, sleep |-> FALSE, failed |-> FALSE]
    ELSE IF res.status = 201
    THEN [next |-> "break", write |-> TRUE, sleep |-> FALSE, failed |-> FALSE]
    ELSE IF res.status = 412
    THEN [next |-> "handle_fail_rcs", write |-> FALSE, sleep |-> FALSE, failed |-> FALSE]
    ELSE [next |-> "continue", write |-> FALSE,
          sleep |-> (n + 1 # retries), failed |-> (n + 1 = retries)]

\* One pass of the upload loop.
UploadAttempt ==
    /\ pc = "upload"
    /\ tries < opts.retries
    /\ \E res \in UploadResponses :
          LET b == loop_body(res, tries, opts.retries)
              f1 == generate_machine_id(fs, FALSE)
              f2 == IF b.write THEN write_lastupload_file(f1, now) ELSE f1
              h == handle_fail_rcs(f2, res, now)
              t1 == trace \o GenEv(fs, f1) \o <<Ev("upload", res.status)>>
              t2 == IF b.next = "raise" THEN t1
                    ELSE Append(t1, Ev("upload_returned", res.status))
              t3 == IF b.write THEN Append(t2, Ev("write_lastupload", 0)) ELSE t2
              t4 == IF b.sleep THEN Append(t3, Ev("sleep", 0)) ELSE t3
          IN  /\ upload' = res
              /\ trace' = t4
              /\ rc' = IF b.failed THEN 1 ELSE rc
              /\ IF b.next = "raise"
                 THEN fs' = f2 /\ Exit(1) /\ UNCHANGED tries
                 ELSE IF b.next = "break"
                 THEN fs' = f2 /\ pc' = "upload_done" /\ UNCHANGED <<tries, exit_code>>
                 ELSE IF b.next = "handle_fail_rcs" /\ h.exits
                 THEN fs' = h.fs /\ Exit(1) /\ UNCHANGED tries
                 ELSE /\ fs' = IF b.next = "handle_fail_rcs" THEN h.fs ELSE f2
                      /\ tries' = tries + 1
                      /\ UNCHANGED <<pc, exit_code>>
    /\ UNCHANGED <<pkg, cache, now, run, opts, system, reg_check, conf>>
    /\ UNCHANGED <<load, parts>>

\* range(retries) is exhausted: the loop is left without a break.
UploadExhausted ==
    /\ pc = "upload"
    /\ tries >= opts.retries
    /\ pc' = "upload_done"
    /\ UNCHANGED <<pkg, fs, cache, now, run, opts, exit_code, system, upload, tries, rc,
                   reg_check, conf, trace>>
    /\ UNCHANGED <<load, parts>>

\* `return rc` of the upload and sys.exit(rc) in _main().
UploadDone ==
    /\ pc = "upload_done"
    /\ trace' = Append(trace, Ev("return", rc))
    /\ Exit(rc)
    /\ UNCHANGED <<pkg, fs, cache, now, run, opts, system, upload, tries, rc, reg_check, conf>>
    /\ UNCHANGED <<load, parts>>

Next ==
    \/ StartRun
    \/ ParseOptions
    \/ IC_handle_startup
    \/ RH_handle_startup
    \/ RH_startup_tail
    \/ Unregister
    \/ TryRegister
    \/ RegisterCreate
    \/ RegisterRetry
    \/ RegisterFinish
    \/ IC_is_client_registered
    \/ Collect
    \/ GetConfStdin
    \/ GetConfUpdate
    \/ GetConfCached
    \/ Archive
    \/ UploadAttempt
    \/ UploadExhausted
    \/ UploadDone

Spec == Init /\ [][Next]_vars

TypeOK ==
    /\ pkg \in {"insights_client", "redhat_access_insights"}
    /\ run \in 0..MaxRuns
    /\ tries \in 0..MaxRetries
    /\ upload \in UploadResponses \cup {NoResp}
    /\ cache \in Stores


\* ================================================================ properties
\* The events of kind e of the history, in order.
Events(e) == SelectSeq(trace, LAMBDA x : x.ev = e)

LastEvent == IF Len(trace) = 0 THEN Ev("", 0) ELSE trace[Len(trace)]

\* The process has ended and had reached the upload loop.
UploadOver == pc = "exited" /\ Count(trace, "upload") >= 1

\* C1: with retries = N >= 1 and no 412 among the answers, a run whose first
\* 201 is the k-th answer (k <= N) makes exactly k attempts and k-1 sleeps and
\* ends with status 0; a run whose first N answers hold no 201 makes exactly
\* N attempts and N-1 sleeps and ends with a non-zero status.
C1_RetryLoopCounts ==
    LET ups == Events("upload")
        k == Len(ups)
    IN  (UploadOver /\ opts.retries >= 1 /\ \A i \in 1..k : ups[i].arg # 412)
        => IF \E i \in 1..k : ups[i].arg = 201
           THEN /\ ups[k].arg = 201
                /\ \A i \in 1..(k-1) : ups[i].arg # 201
                /\ k <= opts.retries
                /\ Count(trace, "sleep") = k - 1
                /\ exit_code = 0
           ELSE /\ k = opts.retries
                /\ Count(trace, "sleep") = opts.retries - 1
                /\ exit_code # 0

\* C2: a 412 answer to an upload attempt is the last thing the run does:
\* no upload attempt and no sleep follows it, and the process has ended
\* with a non-zero status.
C2_No412Retry ==
    \A i \in 1..Len(trace) :
        (trace[i].ev = "upload" /\ trace[i].arg = 412)
        => /\ \A j \in (i+1)..Len(trace) : trace[j].ev \notin {"upload", "sleep"}
           /\ pc = "exited"
           /\ exit_code # 0

\* C2 witness: the 412 arrived on a later attempt than the first.
C2_Witness ==
    /\ LastPos(trace, "upload") > 0
    /\ trace[LastPos(trace, "upload")].arg = 412
    /\ Count(trace, "upload") >= 2
    /\ Count(trace, "sleep") >= 1
    /\ pc = "exited"

\* C3: when the process has ended on a 412 whose body carries an
\* unregistered_at timestamp, .unregistered holds exactly that timestamp and
\* .registered is absent, whatever else the body has or lacks.
C3_UnregisteredPersisted ==
    (/\ pc = "exited"
     /\ upload.status = 412
     /\ upload.json_ok
     /\ upload.unregistered_at.tag = "str")
    => /\ fs.unregistered.exists
       /\ fs.unregistered.text = upload.unregistered_at.str
       /\ ~fs.registered.exists

C5_CheckedBeforeCollect ==
    (pc = "collect" /\ pkg = "insights_client" /\ ~opts.offline)
    => /\ reg_check.done
       /\ reg_check.status => (fs.registered.exists /\ ~fs.unregistered.exists)

Creates == Events("create")

RegensInRegister ==
    Cardinality({i \in 1..Len(trace) :
                    trace[i].ev = "regen" /\ i > FirstPos(trace, "register_begin")})

\* C7: register() sends at most two create-system requests, the second only
\* after a 409 on the first and then with exactly one regenerated identity;
\* when the second fails too the process ends non-zero with no third request
\* and .registered not written.
C7_RegisterConflict ==
    FirstPos(trace, "register_begin") > 0
    => /\ Len(Creates) <= 2
       /\ Len(Creates) = 2 => Creates[1].arg = 409
       /\ (pc = "register_finish" /\ Creates[1].arg = 409) => Len(Creates) = 2
       /\ pc = "register_finish"
             => RegensInRegister = (IF Creates[1].arg = 409 THEN 1 ELSE 0)
       /\ (/\ pc = "exited"
           /\ Len(Creates) = 2
           /\ Creates[2].arg >= 400
           /\ LastEvent.ev = "create")
          => (exit_code # 0 /\ ~fs.registered.exists)

\* C8: the remote check returns None when unregistered_at is absent, True
\* when it is null, the value itself when it is anything else, and False on
\* a connection failure or a body that does not parse.
C8_CheckMapping ==
    reg_check.done
    => LET ua == reg_check.res.unregistered_at
           returns(v) == reg_check.out = "return" /\ reg_check.val = v
       IN  /\ (reg_check.res.kind = "object" /\ ua.tag = "absent") => returns(PyNone)
           /\ (reg_check.res.kind = "object" /\ ua.tag = "null") => returns(PyTrue)
           /\ (reg_check.res.kind = "object" /\ ua.tag = "str") => returns(PyStr(ua.str))
           /\ reg_check.res.kind \in {"conn_error", "not_json"} => returns(PyFalse)

\* C9: under --force-reregister the registration decision is taken with no
\* .registered and no .unregistered marker and a fresh machine identity, and
\* the run is never short-circuited as already registered.
C9_ForcedReregister ==
    opts.reregister
    => /\ pc = "try_register"
          => /\ ~fs.registered.exists
             /\ ~fs.unregistered.exists
             /\ fs.machine_id.exists
             /\ Count(trace, "regen") >= 1
       /\ \A i \in 1..Len(trace) : trace[i].ev # "already_registered"

\* C10 as stated: get_conf never returns a rule set whose detached signature
\* fails verification, whatever the options and configuration.
C10_SignatureAlwaysChecked == conf.returned => conf.sig_ok

\* C10 amended: while GPG verification is enabled (gpg true in the
\* configuration and no --no-gpg), get_conf never returns a rule set whose
\* detached signature fails verification, in every load mode.
C10_SignatureCheckedWhenEnabled == (conf.returned /\ opts.gpg) => conf.sig_ok

\* C10 witness: a verified rule set came from the bundled fallback store.
C10_Witness ==
    /\ conf.returned
    /\ opts.gpg
    /\ conf.mode = "fallback"
    /\ conf.sig_ok


\* ------------------------------------------------------- rule-set loading
\* A store get_conf can take a rule set from: it parses and has a version.
Usable(store) == store.exists /\ Parses(store.doc) /\ HasVersion(store.doc)

\* The signature check has nothing to object to in this store.
SigFine(store) ==
    ~opts.gpg \/ ~store.exists \/ SignatureVerifies(store.doc, store.asc)

\* get_conf ran in this run without a supplied document and without refresh.
UseCached == load.done /\ ~opts.from_stdin /\ ~opts.update

\* C11: every rule set get_conf returns, in every mode, has a version field.
C11_VersionAlways == conf.returned => HasVersion(conf.doc)

\* C12: in UseCached mode the first of the cached store and the fallback
\* store that parses and has a version is returned, and the load fails only
\* when neither is usable (signatures and the removal file being in order).
C12_FallbackUsed ==
    (UseCached /\ ~load.rm_error /\ SigFine(cache) /\ SigFine(load.fallback))
    => /\ Usable(cache) => conf.returned /\ conf.mode = "cached"
       /\ (~Usable(cache) /\ Usable(load.fallback))
              => conf.returned /\ conf.mode = "fallback"
       /\ (~Usable(cache) /\ ~Usable(load.fallback)) => ~conf.returned

\* C14: a removal file without a [remove] section never fails the run: with
\* a usable, correctly signed cached store get_conf still returns the rule
\* set.
C14_RemovalNeverFatal ==
    (UseCached /\ load.rm_error /\ Usable(cache) /\ SigFine(cache))
    => conf.returned


\* ================================================== writing the cache store
\* get_collection_rules and write_collection_data block by block: a block is
\* what one write() of the buffered file object puts on disk.  A document d
\* of n blocks is the sequence of its blocks; the signature of d is one block.
Blocks(d, n) == [i \in 1..n |-> [of |-> d, at |-> i]]
DocLens(d) == IF d = "empty" THEN {0} ELSE 1..MaxDocLen

\* The write() of the block at offset pos: the file keeps what it had
\* elsewhere (os.open without O_TRUNC, lines 153-155) and grows when the
\* block lies past its end.
write_block(file, data, pos) ==
    [i \in 1..(IF Len(file) > pos THEN Len(file) ELSE pos + 1) |->
        IF i = pos + 1 THEN data[pos + 1] ELSE file[i]]

CacheWriteInit ==
    /\ ClientInit
    /\ pkg = "insights_client"
    /\ CacheWriteIdle
    /\ CollectorIdle
    /\ ArchivingIdle
    /\ ConnectingIdle
    /\ CliIdle

\* get_collection_rules lines 97-115: the download answered 200 with
\* document d; with gpg its signature was fetched and verified, and
\* get_collection_rules_gpg writes it to the .asc file (line 147) before the
\* document is written (line 115).  os.open creates or opens the first file.
BeginRefresh ==
    /\ writer.pc \in {"idle", "done", "killed"}
    /\ writer.refreshes < MaxRefreshes
    /\ \E d \in RuleDocs, gpg \in BOOLEAN :
         \E n \in DocLens(d) :
            writer' = [pc |-> "writing",
                       queue |-> (IF gpg
                                  THEN <<[path |-> "asc", data |-> Blocks(d, 1)]>>
                                  ELSE <<>>)
                                 \o <<[path |-> "rules", data |-> Blocks(d, n)]>>,
                       pos |-> 0,
                       refreshes |-> writer.refreshes + 1,
                       prev |-> cache_file.rules,
                       doc |-> Blocks(d, n)]
    /\ UNCHANGED <<outside_cache_write, cache_file>>

\* dyn_conf_file.write(data), line 156: the next block reaches the disk.
WriteBlock ==
    /\ writer.pc = "writing"
    /\ LET w == Head(writer.queue)
       IN  /\ writer.pos < Len(w.data)
           /\ cache_file' = [cache_file EXCEPT
                  ![w.path] = write_block(cache_file[w.path], w.data, writer.pos)]
           /\ writer' = [writer EXCEPT !.pos = writer.pos + 1]
    /\ UNCHANGED outside_cache_write

\* dyn_conf_file.close(), line 157: the next file is opened, or the refresh
\* is over.
CloseFile ==
    /\ writer.pc = "writing"
    /\ writer.pos = Len(Head(writer.queue).data)
    /\ writer' = [writer EXCEPT !.queue = Tail(writer.queue), !.pos = 0,
                                !.pc = IF Len(writer.queue) = 1
                                       THEN "done" ELSE "writing"]
    /\ UNCHANGED <<outside_cache_write, cache_file>>

\* The process is killed while a file is open: what was written stays.
Interrupt ==
    /\ writer.pc = "writing"
    /\ writer' = [writer EXCEPT !.pc = "killed", !.queue = <<>>, !.pos = 0]
    /\ UNCHANGED <<outside_cache_write, cache_file>>

CacheWriteNext ==
    \/ BeginRefresh
    \/ WriteBlock
    \/ CloseFile
    \/ Interrupt

CacheWriteSpec == CacheWriteInit /\ [][CacheWriteNext]_vars

\* C13: at every point of a refresh, an interruption included, the rules
\* file of the cache store holds either all of what it held before the
\* refresh or all of the new document, and nothing else.
C13_AtomicCacheWrite ==
    cache_file.rules \in {writer.prev, writer.doc}

\* C29: when a refresh has completed and returned a rule set (the fetched
\* document parses and has a version), the rules file of the cache store is
\* the fetched document, whatever the file held before, so that a load from
\* the cache store reads the rule set the refresh returned.
C29_RefreshRoundTrip ==
    (/\ writer.pc = "done"
     /\ Len(writer.doc) >= 1
     /\ HasVersion(writer.doc[1].of))
    => cache_file.rules = writer.doc


\* ======================================================== data_collector.py
\* A path is the sequence of the pieces it is concatenated from, a command
\* line the sequence of its words; two texts are the same string exactly
\* when they are the same sequence.
HostsFile == <<"/etc/hosts">>
MountedHostsFile == <<"{CONTAINER_MOUNT_POINT}", "/etc/hosts">>
ConfPattern == <<"/etc/*.conf">>
ConfFile == <<"/etc/a.conf">>
ListCommand == <<"/bin/ls">>
MountedListCommand == <<"/bin/ls", "{CONTAINER_MOUNT_POINT}">>

Mountpoints == {"/", "/mnt"}

\* The placeholder substitution of _parse_file_spec lines 100-103 (the
\* target name stands for both name placeholders).
Substitute(text, mountpoint, target_name) ==
    [i \in DOMAIN text |->
        IF text[i] = "{CONTAINER_MOUNT_POINT}" THEN mountpoint
        ELSE IF text[i] \in {"{DOCKER_IMAGE_NAME}", "{DOCKER_CONTAINER_NAME}"}
        THEN target_name
        ELSE text[i]]

\* '*' in spec['file']
HasWildcard(text) == \E i \in DOMAIN text : text[i] = "/etc/*.conf"

\* The rule entries of a spec list.
FileEntries ==
    {[kind |-> "file", text |-> t, pre_command |-> ""] :
        t \in {HostsFile, MountedHostsFile, ConfPattern}}
GlobEntries == {[kind |-> "glob", text |-> ConfPattern, pre_command |-> ""]}
CommandEntries ==
    {[kind |-> "command", text |-> c, pre_command |-> a] :
        c \in {ListCommand, MountedListCommand}, a \in {"", "iface", "nope"}}

\* conf['pre_commands']: the aliases the rule set defines.
PreCommands == {"iface"}

\* rm_conf as get_conf returns it: the files and commands of remove.conf
\* and whether it has patterns.
RmConfs ==
    {[NoRemoval EXCEPT !.files = {f}] :
        f \in {HostsFile, <<"/mnt", "/etc/hosts">>, ConfPattern, ConfFile}}
    \cup {[NoRemoval EXCEPT !.commands = {c}] :
        c \in {ListCommand, <<"/bin/ls", "/mnt">>}}
    \cup {[NoRemoval EXCEPT !.patterns = TRUE]}

\* `rm_conf and key in rm_conf and text in rm_conf[key]`
Excluded(rm_conf, key, text) == text \in rm_conf[key]

\* What the directory listing or glob.glob finds for ConfPattern.
Listings == {<<>>, <<ConfFile>>}

\* What running a pre-command through the shell gives: it ran and printed
\* lines; its executable is missing and the shell's complaint is the output
\* (stderr=STDOUT); or Popen itself raised OSError.
PreLines == {"eth0", "eth1"}
PreRuns ==
    {[out |-> "ran", lines |-> l] :
        l \in UNION {[1..n -> PreLines] : n \in 0..MaxLines}}
    \cup {[out |-> "missing", lines |-> <<"/bin/sh: ip: command not found">>],
          [out |-> "oserror", lines |-> <<>>]}
NoPreRun == [out |-> "", lines |-> <<>>]

\* _run_pre_command: stdout.splitlines(), or None after an OSError.
run_pre_command(pre) ==
    IF pre.out = "oserror" THEN [none |-> TRUE, lines |-> <<>>]
    ELSE [none |-> FALSE, lines |-> pre.lines]

\* _parse_file_spec: a wildcard path becomes what _expand_paths lists for
\* the substituted path, any other path stays as it is.
parse_file_spec(text, listing) ==
    IF HasWildcard(text) THEN listing ELSE <<text>>

\* _parse_command_spec: the expanded command lines, or the TypeError of
\* iterating over None.
parse_command_spec(e, pre) ==
    IF e.pre_command = "" THEN [specs |-> <<e.text>>, raised |-> FALSE]
    ELSE IF e.pre_command \notin PreCommands
    THEN [specs |-> <<>>, raised |-> FALSE]
    ELSE LET args == run_pre_command(pre)
         IN  IF args.none THEN [specs |-> <<>>, raised |-> TRUE]
             ELSE [specs |-> [k \in DOMAIN args.lines |->
                                 Append(e.text, args.lines[k])],
                   raised |-> FALSE]

\* The archive entries one rule entry gives: entry is its place in entries.
Specs(entry, texts) ==
    [k \in DOMAIN texts |-> [entry |-> entry, source |-> texts[k]]]

Worked(e, skipped, raised, pre) ==
    [entry |-> e, skipped |-> skipped, raised |-> raised, pre |-> pre,
     refused |-> FALSE, status |-> 0, timed_out |-> FALSE]

CollectorInit ==
    /\ ClientInit
    /\ CacheWriteIdle
    /\ ArchivingIdle
    /\ ConnectingIdle
    /\ CliIdle
    /\ \E rm \in RmConfs \cup {NoRemoval}, mp \in Mountpoints :
          collector = [pc |-> "run", rm_conf |-> rm, mountpoint |-> mp]
    /\ entries = <<>>
    /\ added = <<>>
    /\ procs = <<>>

RunsOn(package) ==
    /\ pkg = package
    /\ collector.pc = "run"
    /\ Len(entries) < MaxEntries

\* run_collection lines 212-220: a file entry.
ExpandFile ==
    /\ RunsOn("insights_client")
    /\ \E e \in FileEntries, listing \in Listings :
          IF Excluded(collector.rm_conf, "files", e.text)
          THEN /\ entries' = Append(entries, Worked(e, TRUE, FALSE, NoPreRun))
               /\ UNCHANGED added
          ELSE /\ entries' = Append(entries, Worked(e, FALSE, FALSE, NoPreRun))
               /\ added' = added \o Specs(Len(entries) + 1,
                                          parse_file_spec(e.text, listing))
    /\ UNCHANGED <<outside_collection, collector, procs>>

\* run_collection lines 221-229: a glob entry; each file glob.glob found is
\* looked up in rm_conf on its own.
ExpandGlob ==
    /\ RunsOn("insights_client")
    /\ \E e \in GlobEntries, listing \in Listings :
          /\ entries' = Append(entries, Worked(e, FALSE, FALSE, NoPreRun))
          /\ added' = added \o Specs(Len(entries) + 1,
                 SelectSeq(listing,
                           LAMBDA g : ~Excluded(collector.rm_conf, "files", g)))
    /\ UNCHANGED <<outside_collection, collector, procs>>

\* run_collection lines 230-238: a command entry, with _parse_command_spec.
ExpandCommand ==
    /\ RunsOn("insights_client")
    /\ \E e \in CommandEntries, pre \in PreRuns :
          /\ (e.pre_command \notin PreCommands) => pre = [out |-> "ran", lines |-> <<>>]
          /\ IF Excluded(collector.rm_conf, "commands", e.text)
             THEN /\ entries' = Append(entries, Worked(e, TRUE, FALSE, NoPreRun))
                  /\ UNCHANGED <<added, collector>>
             ELSE LET r == parse_command_spec(e, pre)
                      ran == IF e.pre_command \in PreCommands THEN pre ELSE NoPreRun
                  IN  /\ entries' = Append(entries, Worked(e, FALSE, r.raised, ran))
                      /\ added' = added \o Specs(Len(entries) + 1, r.specs)
                      /\ collector' = [collector EXCEPT
                             !.pc = IF r.raised THEN "raised" ELSE @]
    /\ UNCHANGED <<outside_collection, procs>>

\* The loop is over: the metadata is written and the collection returns.
FinishCollection ==
    /\ collector.pc = "run"
    /\ collector' = [collector EXCEPT !.pc = "done"]
    /\ UNCHANGED <<outside_collection, entries, added, procs>>

\* The archive entries that rule entry number i gave.
TasksOf(i) == SelectSeq(added, LAMBDA a : a.entry = i)

\* The text of an entry after placeholder substitution, and the part of the
\* removal policy it is matched against.
Substituted(e) == Substitute(e.text, collector.mountpoint, "")
RemovalKey(e) == IF e.kind = "command" THEN "commands" ELSE "files"

\* C15: a rule entry whose substituted path or command line is an entry of
\* the removal policy gives no task, adds nothing to the archive and raises
\* no error.
C15_ExcludedEntryDropped ==
    \A i \in DOMAIN entries :
        (pkg = "insights_client"
         /\ Substituted(entries[i].entry)
               \in collector.rm_conf[RemovalKey(entries[i].entry)])
        => /\ TasksOf(i) = <<>>
           /\ ~entries[i].raised

\* C30: no file whose concrete path is among the excluded files of the
\* removal policy is added to the archive, whether a File entry names it,
\* a wildcard File entry expands to it or a Glob entry finds it.
C30_ExcludedFileNeverRead ==
    \A k \in DOMAIN added :
        entries[added[k].entry].entry.kind \in {"file", "glob"}
        => Substitute(added[k].source, collector.mountpoint, "")
              \notin collector.rm_conf.files

\* C16: a command entry with a pre_command alias gives one task per line of
\* the pre-command's output, each the base command, a space and the line,
\* when the alias is known and the pre-command runs; it gives no task and
\* no exception when the alias is unknown or the executable is missing.
C16_PreCommandExpansion ==
    \A i \in DOMAIN entries :
        LET r == entries[i]
            e == r.entry
        IN  (pkg = "insights_client" /\ e.kind = "command"
             /\ e.pre_command # "" /\ ~r.skipped)
            => /\ (e.pre_command \in PreCommands /\ r.pre.out = "ran")
                    => TasksOf(i) = Specs(i, [k \in DOMAIN r.pre.lines |->
                                                Append(e.text, r.pre.lines[k])])
               /\ (e.pre_command \notin PreCommands \/ r.pre.out = "missing")
                    => TasksOf(i) = <<>> /\ ~r.raised


\* --------------------------------- redhat_access_insights/data_collector.py
\* _set_black_list
black_list == {"rm", "kill", "reboot", "shutdown"}

\* The commands of a rule set: the words of the command line and whether
\* the entry has line patterns.
CommandLines ==
    {<<"rm", "-rf", "/tmp/x">>, <<"echo", "rm">>, ListCommand, <<"/opt/tool">>}
Commands ==
    {[kind |-> "command", text |-> c, pre_command |-> "", pattern |-> f] :
        c \in CommandLines, f \in BOOLEAN}

\* Lines 75-77: shlex.split(command), then the intersection of all the
\* words with the black list.
Blacklisted(args) == {args[k] : k \in DOMAIN args} \cap black_list # {}

\* Lines 94-150: the processes one command is run with, in pipeline order:
\* the command, sed, grep -v when rm_conf has patterns, grep when the entry
\* has patterns.
Pipeline(exclude, filters) ==
    <<"command", "sed">>
    \o (IF exclude THEN <<"grep_exclude">> ELSE <<>>)
    \o (IF filters THEN <<"grep_filter">> ELSE <<>>)

\* kill_proc and the three Timer calls: the timer is given the process
\* communicate() waits for, which is the last of the pipeline; when it
\* fires that process is killed.  The others are left as they are: still
\* running, or gone by themselves (left).
AfterTimeout(entry, stages, left) ==
    [k \in DOMAIN stages |->
        [entry |-> entry, role |-> stages[k],
         state |-> IF k = Len(stages) THEN "killed" ELSE left]]

AfterExit(entry, stages) ==
    [k \in DOMAIN stages |-> [entry |-> entry, role |-> stages[k], state |-> "exited"]]

\* run_command_get_output: what it returns or raises and the processes it
\* leaves, for a command whose executable is found or not and which ends
\* with status code or outlives cmd_timeout.
run_command_get_output(entry, e, exclude, found, hangs, code, left) ==
    IF Blacklisted(e.text)
    THEN [raised |-> TRUE, status |-> 0, output |-> "", timed_out |-> FALSE,
          procs |-> <<>>]
    ELSE IF ~found
    THEN [raised |-> FALSE, status |-> 127, output |-> "Command not found",
          timed_out |-> FALSE, procs |-> <<>>]
    ELSE IF hangs
    THEN [raised |-> FALSE, status |-> 130,
          output |-> "Command took to long to run. Exiting.",
          timed_out |-> TRUE,
          procs |-> AfterTimeout(entry, Pipeline(exclude, e.pattern), left)]
    ELSE [raised |-> FALSE, status |-> code, output |-> "stdout",
          timed_out |-> FALSE,
          procs |-> AfterExit(entry, Pipeline(exclude, e.pattern))]

\* run_commands lines 220-229 with _handle_commands and
\* run_command_get_output: one command of the rule set.
RunCommand ==
    /\ RunsOn("redhat_access_insights")
    /\ \E e \in Commands, found \in BOOLEAN, hangs \in BOOLEAN,
          code \in {0, 1}, left \in {"running", "exited"} :
          LET i == Len(entries) + 1
              r == run_command_get_output(i, e, collector.rm_conf.patterns,
                                          found, hangs, code, left)
          IN  /\ (~found \/ Blacklisted(e.text)) => (~hangs /\ code = 0)
              /\ hangs => code = 0
              /\ ~hangs => left = "exited"
              /\ IF Excluded(collector.rm_conf, "commands", e.text)
                 THEN /\ found /\ ~hangs /\ code = 0
                      /\ entries' = Append(entries, Worked(e, TRUE, FALSE, NoPreRun))
                      /\ UNCHANGED <<added, procs, collector>>
                 ELSE /\ entries' = Append(entries,
                             [Worked(e, FALSE, r.raised, NoPreRun) EXCEPT
                                 !.refused = Blacklisted(e.text),
                                 !.status = r.status,
                                 !.timed_out = r.timed_out])
                      /\ procs' = procs \o r.procs
                      /\ IF r.raised
                         THEN /\ collector' = [collector EXCEPT !.pc = "raised"]
                              /\ UNCHANGED added
                         ELSE /\ added' = Append(added,
                                    [entry |-> i, source |-> e.text,
                                     status |-> r.status, output |-> r.output])
                              /\ UNCHANGED collector
    /\ UNCHANGED outside_collection

CollectorNext ==
    \/ ExpandFile
    \/ ExpandGlob
    \/ ExpandCommand
    \/ RunCommand
    \/ FinishCollection

CollectorSpec == CollectorInit /\ [][CollectorNext]_vars

\* The processes spawned for command number i.
ProcsOf(i) == SelectSeq(procs, LAMBDA q : q.entry = i)

\* The commands run_commands got to and did not skip.
Ran(i) ==
    /\ pkg = "redhat_access_insights"
    /\ ~entries[i].skipped

\* C17: a command is refused exactly when its first word is on the black
\* list; a refused command spawns no process, and a command whose first
\* word is not on the list is executed.
C17_DenylistFirstToken ==
    \A i \in DOMAIN entries :
        Ran(i) => /\ entries[i].refused
                       <=> entries[i].entry.text[1] \in black_list
                  /\ entries[i].refused => ProcsOf(i) = <<>>

\* C18: when a command outlives the timeout every process spawned for it is
\* terminated, its result is status 130 with the timed-out text, and the run
\* goes on.
C18_TimeoutKillsAll ==
    \A i \in DOMAIN entries :
        (Ran(i) /\ entries[i].timed_out)
        => /\ \A k \in DOMAIN ProcsOf(i) :
                  ProcsOf(i)[k].state \in {"killed", "exited"}
           /\ TasksOf(i) = <<[entry |-> i, source |-> entries[i].entry.text,
                              status |-> 130,
                              output |-> "Command took to long to run. Exiting."]>>
           /\ ~entries[i].raised

\* C19: a command that is refused, not found or timed out never raises out
\* of the loop of run_commands: its outcome is a result of its own and the
\* loop goes on to the next command.
C19_FailuresConfined ==
    \A i \in DOMAIN entries :
        (Ran(i) /\ (entries[i].refused \/ entries[i].timed_out
                    \/ entries[i].status = 127))
        => /\ ~entries[i].raised
           /\ collector.pc # "raised"
           /\ Len(TasksOf(i)) = 1


\* C25: whatever the retry count (0 and below included) and the answers, an
\* upload loop that is left with return code 0 made at least one attempt, one
\* of its attempts was answered with 201, and the last-upload marker was
\* written.
C25_SuccessIsReal ==
    (pc = "exited" /\ LastEvent = Ev("return", 0))
    => /\ Count(trace, "upload") >= 1
       /\ \E i \in DOMAIN trace : trace[i] = Ev("upload", 201)
       /\ Count(trace, "write_lastupload") >= 1

\* C26: the registered marker and the unregistered marker never exist at the
\* same time.
C26_OneRecord == ~(fs.registered.exists /\ fs.unregistered.exists)

\* C28: unregister() touches the registration markers only when the DELETE
\* was answered with a success status; after a connection error or an error
\* status both markers are as they were.
C28_UnregisterOnlyOnSuccess ==
    [][(pc = "unregister" /\ LastEvent' # Ev("delete", 204))
       => /\ fs'.registered = fs.registered
          /\ fs'.unregistered = fs.unregistered]_vars

\* ============================================ archives and their clean-up
\* insights_client collect_data_and_upload from the target loop on (lines
\* 475-589), _delete_archive and the atexit handlers.  An archive is its
\* staging directory (there or removed) and whether _delete_archive was
\* registered for it with atexit.
ArchiveInit ==
    /\ ClientInit
    /\ pkg = "insights_client"
    /\ CacheWriteIdle
    /\ CollectorIdle
    /\ ConnectingIdle
    /\ CliIdle
    /\ \E o \in ArchiveOptions, n \in 0..MaxContainers :
          /\ (~o.container_mode) => n = 0
          /\ job = [NoJob EXCEPT !.pc = "targets", !.options = o,
                                 !.targets = n + 1]
    /\ staging = <<>>

\* The process is on its way out: by a return (sys.exit(rc) in _main), a
\* sys.exit elsewhere or an uncaught exception.
Leave(how, code) == [job EXCEPT !.pc = "exiting", !.how = how, !.rc = code]

\* _delete_archive: no delete when one of the five retention settings is on.
Retained(o) ==
    o.keep_archive \/ o.offline \/ o.no_upload \/ o.no_tar_file \/ o.obfuscate

\* Lines 477-558: one target.  A container that cannot be opened is passed
\* over (continue); otherwise the archive is created and registered, the
\* collection runs (and may raise), --no-tar-file returns, dc.done() builds
\* the tar file.
CollectTarget ==
    /\ job.pc = "targets"
    /\ job.targets > 0
    /\ \E opened \in BOOLEAN, raises \in BOOLEAN :
          LET host == job.targets = 1
              a == [kind |-> "target", exists |-> TRUE, at_exit |-> TRUE]
          IN  /\ host => opened
              /\ ~opened => ~raises
              /\ IF ~opened
                 THEN /\ job' = [job EXCEPT !.targets = @ - 1]
                      /\ UNCHANGED staging
                 ELSE /\ staging' = Append(staging, a)
                      /\ job' = IF raises THEN Leave("exception", 1)
                                ELSE IF job.options.no_tar_file
                                THEN Leave("return", job.rc)
                                ELSE [job EXCEPT !.targets = @ - 1]
    /\ UNCHANGED outside_archiving

\* Lines 560-577: in container mode the wrapping archive is created (no
\* atexit registration); otherwise the one archive is the full archive.
\* Offline and no-upload runs return here.
WrapArchives ==
    /\ job.pc = "targets"
    /\ job.targets = 0
    /\ staging' = IF job.options.container_mode
                  THEN Append(staging, [kind |-> "full", exists |-> TRUE,
                                        at_exit |-> FALSE])
                  ELSE staging
    /\ job' = IF job.options.offline \/ job.options.no_upload
              THEN Leave("return", job.rc)
              ELSE [job EXCEPT !.pc = "upload"]
    /\ UNCHANGED outside_archiving

\* Line 580, _do_upload: one pass of the upload loop.
UploadArchive ==
    /\ job.pc = "upload"
    /\ job.tries < job.options.retries
    /\ \E res \in UploadResponses :
          LET b == loop_body(res, job.tries, job.options.retries)
          IN  job' = IF b.next = "raise" THEN Leave("exception", 1)
                     ELSE IF b.next = "handle_fail_rcs"
                     THEN IF handle_fail_rcs(fs, res, now).exits
                          THEN Leave("sys.exit", 1)
                          ELSE [job EXCEPT !.tries = @ + 1]
                     ELSE IF b.next = "break"
                     THEN [job EXCEPT !.pc = "uploaded"]
                     ELSE [job EXCEPT !.tries = @ + 1,
                                      !.rc = IF b.failed THEN 1 ELSE @,
                                      !.pc = IF b.failed THEN "uploaded" ELSE @]
    /\ UNCHANGED <<outside_archiving, staging>>

\* Lines 582-589: after _do_upload returned: --keep-archive returns, else
\* full_archive.delete_archive_dir() and return.
AfterUpload ==
    /\ job.pc = "uploaded"
    /\ IF job.options.keep_archive
       THEN UNCHANGED staging
       ELSE staging' = [staging EXCEPT ![Len(staging)].exists = FALSE]
    /\ job' = Leave("return", job.rc)
    /\ UNCHANGED outside_archiving

\* The interpreter ends: each registered _delete_archive runs.
AtExit ==
    /\ job.pc = "exiting"
    /\ staging' = [k \in DOMAIN staging |->
                      IF staging[k].at_exit /\ ~Retained(job.options)
                      THEN [staging[k] EXCEPT !.exists = FALSE]
                      ELSE staging[k]]
    /\ job' = [job EXCEPT !.pc = "exited"]
    /\ UNCHANGED outside_archiving

ArchiveNext ==
    \/ CollectTarget
    \/ WrapArchives
    \/ UploadArchive
    \/ AfterUpload
    \/ AtExit

ArchiveSpec == ArchiveInit /\ [][ArchiveNext]_vars

\* C20: when the process has ended, however it ended, the staging directory
\* of every archive it created is removed, unless one of the retention
\* settings applies.
C20_StagingRemoved ==
    (job.pc = "exited" /\ ~Retained(job.options))
    => \A k \in DOMAIN staging : ~staging[k].exists


\* ==================================================== InsightsConnection()
\* Texts are sequences of tokens: every separator the code splits on or
\* compares with (":", "/", "@", ",", ".", "*") is a token of its own, a run
\* of other characters is one token.  None is told from every text by a
\* token no text holds.
Index(s, tok) ==
    IF \E k \in 1..Len(s) : s[k] = tok
    THEN CHOOSE k \in 1..Len(s) : s[k] = tok /\ \A j \in 1..(k-1) : s[j] # tok
    ELSE 0

\* tok in s
Contains(s, tok) == Index(s, tok) # 0

\* s.split(tok)
RECURSIVE Split(_, _)
Split(s, tok) ==
    IF ~Contains(s, tok) THEN <<s>>
    ELSE <<SubSeq(s, 1, Index(s, tok) - 1)>>
         \o Split(SubSeq(s, Index(s, tok) + 1, Len(s)), tok)

\* s.replace(tok, '')
Remove(s, tok) == SelectSeq(s, LAMBDA x : x # tok)

\* s.startswith(tok), s.endswith(t)
StartsWith(s, tok) == Len(s) >= 1 /\ s[1] = tok
EndsWith(s, t) ==
    Len(t) <= Len(s) /\ SubSeq(s, Len(s) - Len(t) + 1, Len(s)) = t

\* s.lower(), on the texts whose case the code looks at.
Lower(s) == [k \in DOMAIN s |-> IF s[k] \in {"None", "NONE"} THEN "none" ELSE s[k]]

\* urlparse(url): scheme (a token, "" when there is none) and netloc.
urlparse(url) ==
    LET upto(r) == IF Contains(r, "/") THEN SubSeq(r, 1, Index(r, "/") - 1) ELSE r
    IN  IF Len(url) >= 4 /\ url[2] = ":" /\ url[3] = "/" /\ url[4] = "/"
        THEN [scheme |-> url[1], netloc |-> upto(SubSeq(url, 5, Len(url)))]
        ELSE IF Len(url) >= 2 /\ url[1] = "/" /\ url[2] = "/"
        THEN [scheme |-> "", netloc |-> upto(SubSeq(url, 3, Len(url)))]
        ELSE [scheme |-> "", netloc |-> <<>>]

\* urlparse(url).hostname, for a netloc without user information.
hostname(url) == Split(urlparse(url).netloc, ":")[1]

\* requests.auth._basic_auth_str(username, password): the encoding of
\* "username:password" is one-to-one, so the value is kept as that text.
basic_auth_str(username, password) == <<"Basic">> \o username \o <<":">> \o password

\* get_proxies lines 148-158 and 172-182: a proxy URL with '@' in it is cut
\* into scheme + location and the Basic value.  split(':')[2] of the part
\* before the '@' raises IndexError when that part has fewer than two ':'.
split_credentials(proxy) ==
    LET front == Split(proxy, "@")[1]
        fields == Split(front, ":")
        scheme == Split(proxy, ":")[1] \o <<":", "/", "/">>
        location == Split(proxy, "@")[2]
    IN  IF Len(fields) < 3
        THEN [raised |-> TRUE, proxy |-> None, proxy_auth |-> None]
        ELSE [raised |-> FALSE, proxy |-> scheme \o location,
              proxy_auth |-> basic_auth_str(Remove(fields[2], "/"), fields[3])]

\* get_proxies lines 192-207: one NO_PROXY entry against the service host.
no_proxy_matches(no_proxy_host, insights_service_host) ==
    IF no_proxy_host = <<"*">> THEN TRUE
    ELSE IF StartsWith(no_proxy_host, ".") \/ StartsWith(no_proxy_host, "*")
    THEN EndsWith(insights_service_host, Remove(no_proxy_host, "*"))
    ELSE no_proxy_host = insights_service_host

\* get_proxies(): raised (an exception left the method), else self.proxies
\* (the https proxy or None) and self.proxy_auth.
get_proxies(e) ==
    LET configured == /\ e.conf_proxy # None
                      /\ Lower(e.conf_proxy) # <<"none">>
                      /\ e.conf_proxy # <<>>
        from_conf == IF Contains(e.conf_proxy, "@")
                     THEN split_credentials(e.conf_proxy)
                     ELSE [raised |-> FALSE, proxy |-> e.conf_proxy, proxy_auth |-> None]
        has_env == e.https_proxy # None /\ e.https_proxy # <<>>
        from_env == IF ~has_env
                    THEN [raised |-> FALSE, proxy |-> None, proxy_auth |-> None]
                    ELSE IF Contains(e.https_proxy, "@")
                    THEN split_credentials(e.https_proxy)
                    ELSE [raised |-> FALSE, proxy |-> e.https_proxy, proxy_auth |-> None]
        has_no_proxy == e.no_proxy # None /\ e.no_proxy # <<>>
        hosts == Split(e.no_proxy, ",")
        disabled == /\ has_no_proxy
                    /\ \E k \in DOMAIN hosts :
                          no_proxy_matches(hosts[k], hostname(e.base_url))
    IN  IF configured
        THEN [raised |-> from_conf.raised, proxies |-> from_conf.proxy,
              proxy_auth |-> from_conf.proxy_auth]
        ELSE IF from_env.raised
        THEN [raised |-> TRUE, proxies |-> None, proxy_auth |-> None]
        ELSE IF disabled
        THEN [raised |-> FALSE, proxies |-> None, proxy_auth |-> None]
        ELSE [raised |-> FALSE, proxies |-> from_env.proxy,
              proxy_auth |-> from_env.proxy_auth]


\* Proxy settings: a plain URL, one with user and password, one with a user
\* and no password, one without a scheme, one that is only host:port.
ProxyUrls ==
    {<<"http", ":", "/", "/", "proxy", ":", "3128">>,
     <<"http", ":", "/", "/", "user", ":", "pass", "@", "proxy", ":", "3128">>,
     <<"http", ":", "/", "/", "user", "@", "proxy", ":", "3128">>,
     <<"/", "/", "proxy", ":", "3128">>,
     <<"proxy", ":", "3128">>}

\* The config value `proxy`: None, empty and "None" in two spellings mean
\* no proxy.
ConfProxies == {None, <<>>, <<"None">>, <<"none">>} \cup ProxyUrls

\* NO_PROXY: entries joined by commas.
NoProxyEntries ==
    {<<"*">>,
     <<".", "example", ".", "com">>,
     <<"example", ".", "com">>,
     <<"a", ".", "example", ".", "com">>,
     <<"*", ".", "example", ".", "com">>,
     <<".", "example", "*", ".", "com">>}
RECURSIVE Joined(_)
Joined(n) ==
    IF n = 1 THEN NoProxyEntries
    ELSE {l \o <<",">> \o x : l \in Joined(n - 1), x \in NoProxyEntries}
NoProxies == {None} \cup UNION {Joined(n) : n \in 1..MaxNoProxy}

\* base_url with the protocol in front, and upload_url with and without one.
BaseUrls ==
    {<<"https", ":", "/", "/", "a", ".", "example", ".", "com", "/", "r">>,
     <<"https", ":", "/", "/", "example", ".", "com", "/", "r">>}
UploadUrls ==
    {<<"https", ":", "/", "/", "a", ".", "example", ".", "com", "/", "uploads">>,
     <<"a", ".", "example", ".", "com", "/", "uploads">>}

\* insights_client builds its InsightsConnection from the config and the
\* environment; of redhat_access_insights only what follows the construction
\* is followed here.
ConnectionInit ==
    /\ ClientInit
    /\ CacheWriteIdle
    /\ CollectorIdle
    /\ ArchivingIdle
    /\ CliIdle
    /\ IF pkg = "insights_client"
       THEN /\ environ \in [conf_proxy : ConfProxies, https_proxy : {None} \cup ProxyUrls,
                            no_proxy : NoProxies, base_url : BaseUrls,
                            upload_url : UploadUrls]
            /\ conn = [NoConn EXCEPT !.pc = "get_proxies"]
       ELSE /\ environ = NoEnviron
            /\ conn = [NoConn EXCEPT !.pc = "branch_info"]

\* The process ends: sys.exit(status), sys.exit() (status 0) or an exception
\* nobody catches (status 1).
Fatal(why, status) == [conn EXCEPT !.pc = "exited", !.fatal = why, !.status = status]

\* InsightsConnection.__init__ line 86.
GetProxies ==
    /\ conn.pc = "get_proxies"
    /\ LET r == get_proxies(environ)
       IN  conn' = IF r.raised THEN Fatal("IndexError", 1)
                   ELSE [conn EXCEPT !.pc = "_validate_hostnames",
                                     !.proxies = r.proxies,
                                     !.proxy_auth = r.proxy_auth]
    /\ UNCHANGED <<outside_connecting, environ>>

\* _validate_hostnames: the upload URL needs a scheme and a netloc; through
\* a proxy the CONNECT has to be answered with 200, otherwise the host has
\* to resolve; the proxy URL needs a scheme and a netloc and has to resolve.
\* connects, established, resolves, proxy_resolves: what the sockets answer.
ValidateHostnames ==
    /\ conn.pc = "_validate_hostnames"
    /\ \E connects \in BOOLEAN, established \in BOOLEAN, resolves \in BOOLEAN,
          proxy_resolves \in BOOLEAN :
          LET endpoint_url == urlparse(environ.upload_url)
              proxied == conn.proxies # None
              proxy_url == urlparse(conn.proxies)
              proxy == Split(proxy_url.netloc, ":")
          IN  /\ Read(proxied, <<connects, established, proxy_resolves>>,
                      <<TRUE, TRUE, TRUE>>)
              /\ Read(~proxied, resolves, TRUE)
              /\ conn' =
                   IF endpoint_url.scheme = "" \/ endpoint_url.netloc = <<>>
                   THEN Fatal("upload_url", 0)
                   ELSE IF proxied /\ (Len(proxy) < 2 \/ ~connects)
                   THEN Fatal("proxy_connect", 1)
                   ELSE IF proxied /\ ~established
                   THEN Fatal("hostname", 1)
                   ELSE IF ~proxied /\ ~resolves
                   THEN Fatal("hostname", 1)
                   ELSE IF proxied /\ (proxy_url.scheme = "" \/ proxy_url.netloc = <<>>)
                   THEN Fatal("proxy", 0)
                   ELSE IF proxied /\ ~proxy_resolves
                   THEN Fatal("proxy_resolve", 1)
                   ELSE [conn EXCEPT !.pc = "branch_info"]
    /\ UNCHANGED <<outside_connecting, environ>>

\* collect_data_and_upload: pconn.branch_info() and handle_branch_info_error
\* (insights_client lines 432-439 and 275-282, redhat_access_insights lines
\* 180-188 and 157-166).  A run that does not upload goes on with the
\* default branch; any other ends, redhat_access_insights with sys.exit().
BranchInfo ==
    /\ conn.pc = "branch_info"
    /\ \E answer \in {"ok", "ConnectionError", "LookupError"},
          no_upload \in BOOLEAN :
          conn' = IF answer = "ok" \/ no_upload
                  THEN [conn EXCEPT !.pc = "connected", !.no_upload = no_upload]
                  ELSE [Fatal("branch_info",
                              IF pkg = "insights_client" THEN 1 ELSE 0)
                        EXCEPT !.no_upload = no_upload]
    /\ UNCHANGED <<outside_connecting, environ>>

ConnectionNext ==
    \/ GetProxies
    \/ ValidateHostnames
    \/ BranchInfo

ConnectionSpec == ConnectionInit /\ [][ConnectionNext]_vars

\* C21: a process that a fatal condition ended (an invalid upload URL, an
\* invalid proxy setting, a branch-info failure with uploading enabled, ...)
\* has a non-zero exit status.
C21_FatalNonZero == (conn.pc = "exited") => conn.status # 0


\* get_proxies has run in this process.
Resolved == pkg = "insights_client" /\ conn.pc # "get_proxies"

\* A proxy is explicitly configured.
Configured == environ.conf_proxy \notin {None, <<>>, <<"None">>, <<"none">>}

\* The proxy URL without what stands between "//" and "@".
WithoutCredentials(url) ==
    IF ~Contains(url, "@") THEN url
    ELSE LET at == Index(url, "@")
             slash == Index(url, "/")
         IN  SubSeq(url, 1, slash + 1) \o SubSeq(url, at + 1, Len(url))

\* C22: a configured proxy is the resolved proxy whatever HTTPS_PROXY and
\* NO_PROXY hold; with no configured proxy and no HTTPS_PROXY there is no
\* proxy and no proxy authorization.
C22_ConfiguredProxyWins ==
    Resolved
    => /\ Configured => conn.proxies = WithoutCredentials(environ.conf_proxy)
       /\ (~Configured /\ environ.https_proxy = None)
              => conn.proxies = None /\ conn.proxy_auth = None

\* A NO_PROXY entry matches the host: the literal "*", a suffix (an entry
\* that starts with "." or "*", less its leading "*"), or the host itself.
EntryMatches(e, host) ==
    \/ e = <<"*">>
    \/ /\ StartsWith(e, ".") \/ StartsWith(e, "*")
       /\ EndsWith(host, IF StartsWith(e, "*") THEN Tail(e) ELSE e)
    \/ e = host

\* The proxy candidate came from HTTPS_PROXY and was read without an error.
FromEnvironment ==
    Resolved /\ ~Configured /\ environ.https_proxy # None
    /\ conn.fatal # "IndexError"

\* C23: with a proxy from the environment, the proxy is disabled exactly
\* when some comma-separated NO_PROXY entry matches the target host.
C23_NoProxyMatch ==
    FromEnvironment
    => LET hosts == IF environ.no_proxy = None THEN <<>>
                    ELSE Split(environ.no_proxy, ",")
       IN  (conn.proxies = None)
           <=> \E k \in DOMAIN hosts :
                  EntryMatches(hosts[k], hostname(environ.base_url))

\* The proxy URL get_proxies reads: the configured one, else HTTPS_PROXY.
ProxySetting == IF Configured THEN environ.conf_proxy ELSE environ.https_proxy

\* C24: a proxy URL with "@" whose front part is scheme://user:pass gives
\* the base URL and the Basic value of user:pass; one with malformed
\* credentials gives the proxy with no authorization, and no exception.
C24_EmbeddedCredentials ==
    (Resolved /\ ProxySetting # None /\ Contains(ProxySetting, "@")
     /\ (Configured \/ environ.no_proxy = None))
    => LET front == SubSeq(ProxySetting, 1, Index(ProxySetting, "@") - 1)
           wellformed == /\ Len(front) = 7
                         /\ SubSeq(front, 2, 4) = <<":", "/", "/">>
                         /\ front[6] = ":"
       IN  /\ conn.fatal # "IndexError"
           /\ conn.proxies = WithoutCredentials(ProxySetting)
           /\ conn.proxy_auth = IF wellformed
                                THEN <<"Basic", front[5], ":", front[7]>>
                                ELSE None


\* ========================================= modifier options and the upload
\* insights_client: set_up_logging, the modifier block of handle_startup and
\* the places of collect_data_and_upload that decide on the upload.
Modifiers ==
    [offline : BOOLEAN, no_upload : BOOLEAN, to_stdout : BOOLEAN,
     from_stdin : BOOLEAN, from_file : BOOLEAN, just_upload : BOOLEAN,
     no_tar_file : BOOLEAN, retries : 1..MaxRetries]

OptionsInit ==
    /\ ClientInit
    /\ pkg = "insights_client"
    /\ CacheWriteIdle
    /\ CollectorIdle
    /\ ArchivingIdle
    /\ ConnectingIdle
    /\ \E o \in Modifiers : cli = [NoCli EXCEPT !.pc = "set_up_logging", !.options = o]

\* The process ends with status c.
Ends(c) == [cli EXCEPT !.pc = "exited", !.rc = c]

\* set_up_logging lines 65-68: --from-stdin and --from-file imply --to-stdout.
SetUpLogging ==
    /\ cli.pc = "set_up_logging"
    /\ LET o == cli.options
       IN  cli' = [cli EXCEPT !.pc = "handle_startup",
                              !.options.to_stdout =
                                  o.to_stdout \/ o.from_stdin \/ o.from_file]
    /\ UNCHANGED outside_cli

\* handle_startup lines 191-210: --just-upload is refused together with
\* --offline or --no-upload and turns --no-tar-file off; --from-stdin is
\* refused together with --from-file; then --to-stdout sets no_upload.
ModifierOptions ==
    /\ cli.pc = "handle_startup"
    /\ LET o == cli.options
           o1 == IF o.just_upload THEN [o EXCEPT !.no_tar_file = FALSE] ELSE o
           o2 == [o1 EXCEPT !.no_upload = o1.no_upload \/ o1.to_stdout]
       IN  cli' = IF o.just_upload /\ (o.offline \/ o.no_upload) THEN Ends(1)
                  ELSE IF o1.from_stdin /\ o1.from_file
                  THEN [Ends(1) EXCEPT !.options = o1]
                  ELSE [cli EXCEPT !.pc = "collect_data_and_upload",
                                   !.options = o2]
    /\ UNCHANGED outside_cli

\* collect_data_and_upload lines 442-448 and 545-547, 575-580: --just-upload
\* goes to _do_upload at once (or returns 1 when the file is missing); a
\* --no-tar-file run and an offline or no-upload run return; every other run
\* goes to _do_upload with its archive.
CollectOrUpload ==
    /\ cli.pc = "collect_data_and_upload"
    /\ \E file_exists \in BOOLEAN :
          LET o == cli.options
          IN  /\ Read(o.just_upload, file_exists, TRUE)
              /\ cli' = IF o.just_upload
                        THEN IF ~file_exists THEN Ends(1)
                             ELSE [cli EXCEPT !.pc = "_do_upload"]
                        ELSE IF o.no_tar_file THEN Ends(cli.rc)
                        ELSE IF o.offline \/ o.no_upload THEN Ends(cli.rc)
                        ELSE [cli EXCEPT !.pc = "_do_upload"]
    /\ UNCHANGED outside_cli

\* _do_upload: one pass of the upload loop; the request is sent.
SendArchive ==
    /\ cli.pc = "_do_upload"
    /\ cli.tries < cli.options.retries
    /\ \E res \in UploadResponses :
          LET b == loop_body(res, cli.tries, cli.options.retries)
              c == [cli EXCEPT !.sent = @ + 1]
          IN  cli' = IF b.next = "raise" THEN [c EXCEPT !.pc = "exited", !.rc = 1]
                     ELSE IF b.next = "handle_fail_rcs"
                             /\ handle_fail_rcs(fs, res, now).exits
                     THEN [c EXCEPT !.pc = "exited", !.rc = 1]
                     ELSE IF b.next = "break"
                     THEN [c EXCEPT !.pc = "exited"]
                     ELSE [c EXCEPT !.tries = @ + 1,
                                    !.rc = IF b.failed THEN 1 ELSE @,
                                    !.pc = IF b.failed THEN "exited" ELSE @]
    /\ UNCHANGED outside_cli

OptionsNext ==
    \/ SetUpLogging
    \/ ModifierOptions
    \/ CollectOrUpload
    \/ SendArchive

OptionsSpec == OptionsInit /\ [][OptionsNext]_vars

\* C27: a run in which offline or no_upload is in effect when
\* collect_data_and_upload begins sends no upload request.
C27_NoUploadMeansNone ==
    (/\ cli.pc \in {"collect_data_and_upload", "_do_upload", "exited"}
     /\ cli.options.offline \/ cli.options.no_upload)
    => cli.sent = 0

====
